---- MODULE Spec2Model ----
(***************************************************************************)
(* pywr/recorders/events.py: EventRecorder (the per-scenario open/close    *)
(* state machine over a threshold's values) and EventDurationRecorder (the *)
(* per-scenario reduction of the recorded events' durations).              *)
(*                                                                         *)
(* Encoding of values.                                                     *)
(*   - A timestep is a record [index, datetime]; datetime is counted in    *)
(*     hours since the start of the run.  NoTimestep is Python's None.     *)
(*   - The value a Recorder or Parameter threshold yields is a float; it   *)
(*     is held here in halves (raw 1 is 0.5, raw 2 is 1.0), so that the    *)
(*     cast np.array(..., dtype=np.int) is a real truncation.  The index   *)
(*     an IndexParameter yields is an integer and is held as it is.        *)
(*   - An optional event (None or an Event) is a sequence of length 0 or 1.*)
(*   - A float of _values is a rational [num, den]; den = 0 is NaN.        *)
(***************************************************************************)
EXTENDS Integers, Sequences, FiniteSets, TLC

\* ------------------------------------------------------------------ bounds
NumScenarios == 2
MaxSteps == 3
MaxMinLength == 2
DeltaHours == 36

Scenarios == 0 .. (NumScenarios - 1)

VARIABLES
    pc,                     \* EventRecorder: "init" (no object), "constructed", "ready" (reset was called)
    threshold,              \* the kind of self.threshold
    minimum_event_length,   \* self.minimum_event_length
    events,                 \* self.events
    _current_events,        \* self._current_events, by global_id
    timestep,               \* self.model.timestepper.current
    result,                 \* how the last EventRecorder call ended
    lastCall,               \* the last call made and its argument
    hist,                   \* the threshold values read by after() since the last reset (kept by SpecHist only)
    dropped,                \* how many closed events after() did not append since the last reset
    clean,                  \* since the last reset: every after() returned, none came after a finish()
    closedBy,               \* for each entry of events, the call that appended it
    dpc,                    \* EventDurationRecorder: "init", "constructed", "setup"
    recorder_agg_func,      \* self.recorder_agg_func
    _values,                \* self._values, by global_id
    dresult                 \* how the last EventDurationRecorder call ended

vars == <<pc, threshold, minimum_event_length, events, _current_events, timestep,
          result, lastCall, hist, dropped, clean, closedBy,
          dpc, recorder_agg_func, _values, dresult>>

trackerVars == <<pc, threshold, minimum_event_length, events, _current_events, timestep,
                 result, hist, dropped, clean, closedBy>>

durationVars == <<dpc, recorder_agg_func, _values, dresult>>

\* ------------------------------------------------------------ data model
None == <<>>

Some(x) == <<x>>

NoTimestep == [index |-> -1, datetime |-> -DeltaHours]

\* The timestep the driver makes current after ts.
NextTimestep(ts) == [index |-> ts.index + 1, datetime |-> ts.datetime + DeltaHours]

\* Event.__init__
Event(start, scenario_index) ==
    [start |-> start, scenario_index |-> scenario_index, end |-> NoTimestep]

\* timedelta.days: whole days, rounded towards minus infinity.
Days(hours) == hours \div 24

\* Event.duration
Duration(evt) == Days(evt.end.datetime - evt.start.datetime)

\* --------------------------------------------------------- the threshold
ThresholdKinds == {"Recorder", "IndexParameter", "Parameter", "Other"}

FloatValues == {0, 1, 2}

IndexValues == {0, 1}

ValuesOf(kind) == IF kind = "IndexParameter" THEN IndexValues ELSE FloatValues

\* int(x) of a float held in halves: rounds towards zero.
Truncate(raw) == IF raw >= 0 THEN raw \div 2 ELSE -((-raw) \div 2)

ThresholdKnownAny(kind) == TRUE

\* The isinstance chain of after(): which kinds are read at all.
ThresholdKnown(kind) == kind \in {"Recorder", "IndexParameter", "Parameter"}

\* One entry of all_triggered.
AsInt(kind, raw) == IF kind = "IndexParameter" THEN raw ELSE Truncate(raw)

AllTriggered(kind, vec) == [k \in 1 .. Len(vec) |-> AsInt(kind, vec[k])]

\* ------------------------------------------------------ EventRecorder
ValidMinimumEventLengthFromZero(m) == ~(m < 0)

\* The test of __init__ that lets the construction go on.
ValidMinimumEventLength(m) == ~(m < 1)

LongEnoughOffByOne(current_length, mel) == current_length + 1 >= mel

\* The test of after() that appends a closed event.
LongEnough(current_length, mel) == current_length >= mel

\* A loop body that puts a closed event at the head of events.
AfterScenarioPrepends(st, si, triggered, ts, mel) ==
    LET current_event == st.cur[si] IN
    IF current_event # None
    THEN IF triggered # 0
         THEN st
         ELSE LET ended == [current_event[1] EXCEPT !.end = ts]
                  current_length == ts.index - ended.start.index
              IN  [events |-> IF LongEnough(current_length, mel)
                              THEN <<ended>> \o st.events
                              ELSE st.events,
                   cur |-> [st.cur EXCEPT ![si] = None]]
    ELSE IF triggered # 0
         THEN [st EXCEPT !.cur[si] = Some(Event(ts, si))]
         ELSE st

\* A loop body that leaves a closed event in its slot.
AfterScenarioKeepsSlot(st, si, triggered, ts, mel) ==
    LET current_event == st.cur[si] IN
    IF current_event # None
    THEN IF triggered # 0
         THEN st
         ELSE LET ended == [current_event[1] EXCEPT !.end = ts]
                  current_length == ts.index - ended.start.index
              IN  [events |-> IF LongEnough(current_length, mel)
                              THEN Append(st.events, ended)
                              ELSE st.events,
                   cur |-> st.cur]
    ELSE IF triggered # 0
         THEN [st EXCEPT !.cur[si] = Some(Event(ts, si))]
         ELSE st

\* A loop body that empties every slot when it closes an event.
AfterScenarioClearsAll(st, si, triggered, ts, mel) ==
    LET current_event == st.cur[si] IN
    IF current_event # None
    THEN IF triggered # 0
         THEN st
         ELSE LET ended == [current_event[1] EXCEPT !.end = ts]
                  current_length == ts.index - ended.start.index
              IN  [events |-> IF LongEnough(current_length, mel)
                              THEN Append(st.events, ended)
                              ELSE st.events,
                   cur |-> [sj \in Scenarios |-> None]]
    ELSE IF triggered # 0
         THEN [st EXCEPT !.cur[si] = Some(Event(ts, si))]
         ELSE st

\* The body of after()'s loop for scenario si; st is [events, cur].
AfterScenario(st, si, triggered, ts, mel) ==
    LET current_event == st.cur[si] IN
    IF current_event # None
    THEN IF triggered # 0
         THEN st
         ELSE LET ended == [current_event[1] EXCEPT !.end = ts]
                  current_length == ts.index - ended.start.index
              IN  [events |-> IF LongEnough(current_length, mel)
                              THEN Append(st.events, ended)
                              ELSE st.events,
                   cur |-> [st.cur EXCEPT ![si] = None]]
    ELSE IF triggered # 0
         THEN [st EXCEPT !.cur[si] = Some(Event(ts, si))]
         ELSE st

\* A loop that reads a missing entry as 0 instead of raising.
RECURSIVE AfterLoopPadded(_, _, _, _, _)
AfterLoopPadded(st, si, all_triggered, ts, mel) ==
    IF si >= NumScenarios
    THEN [st |-> st, result |-> "ok"]
    ELSE AfterLoopPadded(AfterScenario(st, si,
                                       IF si + 1 > Len(all_triggered)
                                       THEN 0 ELSE all_triggered[si + 1],
                                       ts, mel),
                         si + 1, all_triggered, ts, mel)

\* after()'s loop from scenario si on. all_triggered[si.global_id] raises
\* IndexError past the end of the array; what was done before stays done.
RECURSIVE AfterLoop(_, _, _, _, _)
AfterLoop(st, si, all_triggered, ts, mel) ==
    IF si >= NumScenarios
    THEN [st |-> st, result |-> "ok"]
    ELSE IF si + 1 > Len(all_triggered)
         THEN [st |-> st, result |-> "IndexError"]
         ELSE AfterLoop(AfterScenario(st, si, all_triggered[si + 1], ts, mel),
                        si + 1, all_triggered, ts, mel)

\* A finish() that applies after()'s length test.
FinishScenarioFiltered(st, si, ts) ==
    LET current_event == st.cur[si] IN
    IF current_event # None
    THEN [events |-> IF ts.index - current_event[1].start.index >= minimum_event_length
                     THEN Append(st.events, [current_event[1] EXCEPT !.end = ts])
                     ELSE st.events,
          cur |-> [st.cur EXCEPT ![si] = None]]
    ELSE st

\* A finish() that appends the event without setting its end.
FinishScenarioNoEnd(st, si, ts) ==
    LET current_event == st.cur[si] IN
    IF current_event # None
    THEN [events |-> Append(st.events, current_event[1]),
          cur |-> [st.cur EXCEPT ![si] = None]]
    ELSE st

\* A finish() that leaves the event it appended in its slot.
FinishScenarioKeepsSlot(st, si, ts) ==
    LET current_event == st.cur[si] IN
    IF current_event # None
    THEN [events |-> Append(st.events, [current_event[1] EXCEPT !.end = ts]),
          cur |-> st.cur]
    ELSE st

\* The body of finish()'s loop for scenario si.
FinishScenario(st, si, ts) ==
    LET current_event == st.cur[si] IN
    IF current_event # None
    THEN [events |-> Append(st.events, [current_event[1] EXCEPT !.end = ts]),
          cur |-> [st.cur EXCEPT ![si] = None]]
    ELSE st

\* A finish() that walks the scenarios from the last to the first.
RECURSIVE FinishLoopReversed(_, _, _)
FinishLoopReversed(st, si, ts) ==
    IF si >= NumScenarios
    THEN st
    ELSE FinishScenario(FinishLoopReversed(st, si + 1, ts), si, ts)

\* finish()'s loop from scenario si on.
RECURSIVE FinishLoop(_, _, _)
FinishLoop(st, si, ts) ==
    IF si >= NumScenarios
    THEN st
    ELSE FinishLoop(FinishScenario(st, si, ts), si + 1, ts)

\* The entries a call appended to events, each marked with the call.
Marks(old, new, op) == [k \in 1 .. (Len(new) - Len(old)) |-> op]

Prefix(vec, n) == SubSeq(vec, 1, IF Len(vec) < n THEN Len(vec) ELSE n)

\* EventRecorder.__init__
EventRecorderInit(kind, m) ==
    /\ pc = "init"
    /\ lastCall' = [op |-> "init", arg |-> m, vec |-> <<>>]
    /\ IF ValidMinimumEventLength(m)
       THEN /\ pc' = "constructed"
            /\ threshold' = kind
            /\ minimum_event_length' = m
            /\ result' = "ok"
       ELSE /\ result' = "ValueError"
            /\ UNCHANGED <<pc, threshold, minimum_event_length>>
    /\ UNCHANGED <<events, _current_events, timestep, hist, dropped, clean, closedBy>>
    /\ UNCHANGED durationVars

\* How many slots hold an event.
Open(cur) == Cardinality({si \in Scenarios : cur[si] # None})

\* A reset() that leaves _current_events as it was.
ResetKeepsOpen ==
    /\ pc \in {"constructed", "ready"}
    /\ pc' = "ready"
    /\ events' = <<>>
    /\ result' = "ok"
    /\ lastCall' = [op |-> "reset", arg |-> Len(events) + Open(_current_events), vec |-> <<>>]
    /\ hist' = <<>>
    /\ dropped' = 0
    /\ clean' = TRUE
    /\ closedBy' = <<>>
    /\ UNCHANGED <<_current_events, threshold, minimum_event_length, timestep>>
    /\ UNCHANGED <<dpc, recorder_agg_func, _values, dresult>>

\* EventRecorder.reset; lastCall.arg: how many events, recorded or open, it discarded.
Reset ==
    /\ pc \in {"constructed", "ready"}
    /\ pc' = "ready"
    /\ events' = <<>>
    /\ _current_events' = [si \in Scenarios |-> None]
    /\ result' = "ok"
    /\ lastCall' = [op |-> "reset", arg |-> Len(events) + Open(_current_events), vec |-> <<>>]
    /\ hist' = <<>>
    /\ dropped' = 0
    /\ clean' = TRUE
    /\ closedBy' = <<>>
    /\ UNCHANGED <<threshold, minimum_event_length, timestep>>
    /\ UNCHANGED durationVars

\* How many slots a call emptied.
Closed(old, new) == Cardinality({si \in Scenarios : old[si] # None /\ new[si] = None})

\* The driver steps the timestepper and calls EventRecorder.after; vec is
\* what the threshold yields at the new timestep. record: keep vec in hist.
After(vec, record) ==
    /\ pc = "ready"
    /\ timestep.index + 1 < MaxSteps
    /\ LET ts == NextTimestep(timestep) IN
       /\ timestep' = ts
       /\ lastCall' = [op |-> "after", arg |-> Len(vec), vec |-> Prefix(vec, NumScenarios)]
       /\ IF ~ThresholdKnown(threshold)
          THEN /\ result' = "TypeError"
               /\ clean' = FALSE
               /\ UNCHANGED <<events, _current_events, hist, dropped, closedBy>>
          ELSE LET out == AfterLoop([events |-> events, cur |-> _current_events], 0,
                                    AllTriggered(threshold, vec), ts,
                                    minimum_event_length)
               IN  /\ events' = out.st.events
                   /\ _current_events' = out.st.cur
                   /\ result' = out.result
                   /\ hist' = IF record
                              THEN Append(hist, [ts |-> ts.index, vec |-> Prefix(vec, NumScenarios)])
                              ELSE hist
                   /\ dropped' = dropped + Closed(_current_events, out.st.cur)
                                          - (Len(out.st.events) - Len(events))
                   /\ clean' = (clean /\ out.result = "ok" /\ lastCall.op # "finish")
                   /\ closedBy' = closedBy \o Marks(events, out.st.events, "after")
    /\ UNCHANGED <<pc, threshold, minimum_event_length>>
    /\ UNCHANGED durationVars

\* EventRecorder.finish; lastCall.arg: how many events it appended.
Finish ==
    /\ pc = "ready"
    /\ LET st == FinishLoop([events |-> events, cur |-> _current_events], 0, timestep) IN
       /\ events' = st.events
       /\ _current_events' = st.cur
       /\ closedBy' = closedBy \o Marks(events, st.events, "finish")
    /\ result' = "ok"
    /\ lastCall' = [op |-> "finish", arg |-> Open(_current_events), vec |-> <<>>]
    /\ UNCHANGED <<pc, threshold, minimum_event_length, timestep, hist, dropped, clean>>
    /\ UNCHANGED durationVars

\* What a threshold can yield in one timestep: an array of any length
\* around the scenario count.
Vectors(kind) ==
    UNION {[1 .. n -> ValuesOf(kind)] : n \in (NumScenarios - 1) .. (NumScenarios + 1)}

MinimumEventLengths == 0 .. MaxMinLength

Init ==
    /\ pc = "init"
    /\ threshold = "Other"
    /\ minimum_event_length = 0
    /\ events = <<>>
    /\ _current_events = [si \in Scenarios |-> None]
    /\ timestep = NoTimestep
    /\ result = "ok"
    /\ lastCall = [op |-> "none", arg |-> 0, vec |-> <<>>]
    /\ hist = <<>>
    /\ dropped = 0
    /\ clean = TRUE
    /\ closedBy = <<>>
    /\ dpc = "init"
    /\ recorder_agg_func = "None"
    /\ _values = [si \in Scenarios |-> [num |-> 0, den |-> 1]]
    /\ dresult = "ok"

Construct == \E kind \in ThresholdKinds, m \in MinimumEventLengths : EventRecorderInit(kind, m)

Advance == \E vec \in Vectors(threshold) : After(vec, FALSE)

Next == Construct \/ Reset \/ Advance \/ Finish

Spec == Init /\ [][Next]_vars

\* ----------------------------------------------- EventDurationRecorder
Zero == [num |-> 0, den |-> 1]

NaN == [num |-> 0, den |-> 0]

Whole(n) == [num |-> n, den |-> 1]

\* What np.empty may hold.
Uninitialised == {NaN, Whole(7)}

AggFuncs == {"sum", "mean", "max", "count"}

\* kwargs.pop('recorder_agg_func', kwargs.get('agg_func')); "absent" is a
\* keyword that was not passed.
PopAggFunc(kw_recorder_agg_func, kw_agg_func) ==
    IF kw_recorder_agg_func # "absent" THEN kw_recorder_agg_func
    ELSE IF kw_agg_func # "absent" THEN kw_agg_func
    ELSE "None"

\* EventRecorder.to_dataframe: one row per event, in the order of events.
ToDataframe(evts) ==
    [k \in 1 .. Len(evts) |-> [scenario_id |-> evts[k].scenario_index,
                               start |-> evts[k].start.datetime,
                               end |-> evts[k].end.datetime]]

DtDaysRoundedUp(hours) == (hours + 23) \div 24

\* Series.dt.days of a timedelta column.
DtDays(hours) == hours \div 24

\* df['duration'] = (df['end'] - df['start']).dt.days; df[['scenario_id', 'duration']]
DurationFrame(df) ==
    [k \in 1 .. Len(df) |-> [scenario_id |-> df[k].scenario_id,
                             duration |-> DtDays(df[k].end - df[k].start)]]

\* df.groupby('scenario_id'): the keys, and the durations of one group in row order.
GroupKeys(df) == {df[k].scenario_id : k \in 1 .. Len(df)}

RECURSIVE GroupDurations(_, _)
GroupDurations(df, id) ==
    IF df = <<>> THEN <<>>
    ELSE IF Head(df).scenario_id = id
         THEN <<Head(df).duration>> \o GroupDurations(Tail(df), id)
         ELSE GroupDurations(Tail(df), id)

RECURSIVE SeqSum(_)
SeqSum(seq) == IF seq = <<>> THEN 0 ELSE Head(seq) + SeqSum(Tail(seq))

RECURSIVE SeqMax(_)
SeqMax(seq) ==
    IF Len(seq) = 1 THEN Head(seq)
    ELSE LET m == SeqMax(Tail(seq)) IN IF Head(seq) > m THEN Head(seq) ELSE m

\* .agg(func) on one group's durations.
Agg(func, durations) ==
    CASE func = "sum" -> Whole(SeqSum(durations))
      [] func = "mean" -> [num |-> SeqSum(durations), den |-> Len(durations)]
      [] func = "max" -> Whole(SeqMax(durations))
      [] func = "count" -> Whole(Len(durations))

\* A finish() that does not zero _values before writing the groups' values.
FinishValuesKept(old, func, evts) ==
    LET df == DurationFrame(ToDataframe(evts)) IN
    [si \in Scenarios |-> IF si \in GroupKeys(df)
                          THEN Agg(func, GroupDurations(df, si))
                          ELSE old[si]]

\* _values after a finish() that ran to its end with a non-empty frame.
FinishValues(old, func, evts) ==
    LET df == DurationFrame(ToDataframe(evts)) IN
    [si \in Scenarios |-> IF si \in GroupKeys(df)
                          THEN Agg(func, GroupDurations(df, si))
                          ELSE Zero]

NoArgs(op) == [op |-> op, arg |-> 0, vec |-> <<>>]

\* EventDurationRecorder.__init__
EventDurationRecorderInit(kw_recorder_agg_func, kw_agg_func) ==
    /\ pc # "init"
    /\ dpc = "init"
    /\ dpc' = "constructed"
    /\ recorder_agg_func' = PopAggFunc(kw_recorder_agg_func, kw_agg_func)
    /\ dresult' = "ok"
    /\ lastCall' = NoArgs("duration_init")
    /\ UNCHANGED _values
    /\ UNCHANGED trackerVars

\* EventDurationRecorder.setup
DurationSetup ==
    /\ dpc \in {"constructed", "setup"}
    /\ dpc' = "setup"
    /\ \E garbage \in Uninitialised : _values' = [si \in Scenarios |-> garbage]
    /\ dresult' = "ok"
    /\ lastCall' = NoArgs("duration_setup")
    /\ UNCHANGED recorder_agg_func
    /\ UNCHANGED trackerVars

\* EventDurationRecorder.reset
DurationReset ==
    /\ dpc = "setup"
    /\ _values' = [si \in Scenarios |-> Zero]
    /\ dresult' = "ok"
    /\ lastCall' = NoArgs("duration_reset")
    /\ UNCHANGED <<dpc, recorder_agg_func>>
    /\ UNCHANGED trackerVars

\* EventDurationRecorder.finish
DurationFinish ==
    /\ dpc = "setup"
    \* vec notes which scenarios held a non-zero value when finish() was called
    /\ lastCall' = [op |-> "duration_finish", arg |-> 0,
                    vec |-> [k \in 1 .. NumScenarios |->
                                IF _values[k - 1] = Zero THEN 0 ELSE 1]]
    /\ IF pc # "ready"
       THEN \* self.event_recorder.events is None: len(None) raises in to_dataframe
            /\ dresult' = "TypeError"
            /\ UNCHANGED _values
       ELSE IF Len(ToDataframe(events)) = 0
       THEN /\ _values' = [si \in Scenarios |-> Zero]
            /\ dresult' = "ok"
       ELSE IF recorder_agg_func = "None"
       THEN \* groupby(...).agg(None) raises, after _values was zeroed
            /\ _values' = [si \in Scenarios |-> Zero]
            /\ dresult' = "TypeError"
       ELSE /\ _values' = FinishValues(_values, recorder_agg_func, events)
            /\ dresult' = "ok"
    /\ UNCHANGED <<dpc, recorder_agg_func>>
    /\ UNCHANGED trackerVars

\* An EventRecorder on an IndexParameter, with an EventDurationRecorder on it.
InitAgg ==
    /\ pc = "constructed"
    /\ threshold = "IndexParameter"
    /\ minimum_event_length \in 1 .. MaxMinLength
    /\ events = <<>>
    /\ _current_events = [si \in Scenarios |-> None]
    /\ timestep = NoTimestep
    /\ result = "ok"
    /\ lastCall = NoArgs("init")
    /\ hist = <<>>
    /\ dropped = 0
    /\ clean = TRUE
    /\ closedBy = <<>>
    /\ dpc = "init"
    /\ recorder_agg_func = "None"
    /\ _values = [si \in Scenarios |-> Zero]
    /\ dresult = "ok"

AdvanceIndices == \E vec \in [1 .. NumScenarios -> IndexValues] : After(vec, FALSE)

ConstructDuration ==
    \E kw_recorder_agg_func \in AggFuncs \cup {"absent"}, kw_agg_func \in AggFuncs \cup {"absent"} :
        EventDurationRecorderInit(kw_recorder_agg_func, kw_agg_func)

NextAgg ==
    \/ Reset
    \/ AdvanceIndices
    \/ Finish
    \/ ConstructDuration
    \/ DurationSetup
    \/ DurationReset
    \/ DurationFinish

SpecAgg == InitAgg /\ [][NextAgg]_vars

\* The same recorder, with the values after() read kept in hist.
AdvanceRecorded == \E vec \in Vectors(threshold) : After(vec, TRUE)

NextHist == Construct \/ Reset \/ AdvanceRecorded \/ Finish

SpecHist == Init /\ [][NextHist]_vars

\* ------------------------------------------------------------- properties
IndexLength(evt) == evt.end.index - evt.start.index

\* The raw threshold value of scenario si at the k-th after() since reset is non-zero.
Active(si, k) == hist[k].vec[si + 1] # 0

\* The first timestep of each maximal run of non-zero values of scenario si.
RunStarts(si) == {a \in 1 .. Len(hist) : Active(si, a) /\ (a = 1 \/ ~Active(si, a - 1))}

EventsOf(si) == {k \in 1 .. Len(events) : events[k].scenario_index = si}

\* C1 - Length filter: every event that after() appended to events has
\* end.index - start.index >= minimum_event_length; an event shorter than
\* that is in events only when finish() appended it.
C1_LengthFilter ==
    \A k \in 1 .. Len(events) :
        /\ closedBy[k] = "after" => IndexLength(events[k]) >= minimum_event_length
        /\ IndexLength(events[k]) < minimum_event_length => closedBy[k] = "finish"

\* A run of one timestep was closed by after() under a minimum of two (and
\* dropped), while another run was long enough and appended by after().
C1_Witness ==
    /\ minimum_event_length = 2
    /\ dropped > 0
    /\ \E k \in 1 .. Len(events) : closedBy[k] = "after"

\* C2 - Finalize unconditional: finish() appends every open event with
\* end = the current timestep whatever its length, keeps what was recorded,
\* and leaves no scenario with an open event.
C2_FinishUnconditional ==
    [][lastCall'.op = "finish" =>
          /\ \A si \in Scenarios :
                 _current_events[si] # None =>
                     \E k \in (Len(events) + 1) .. Len(events') :
                         events'[k] = [_current_events[si][1] EXCEPT !.end = timestep']
          /\ \A si \in Scenarios : _current_events'[si] = None
          /\ SubSeq(events', 1, Len(events)) = events]_vars

\* finish() appended an event shorter than minimum_event_length.
C2_Witness ==
    /\ lastCall.op = "finish"
    /\ \E k \in 1 .. Len(events) :
           /\ closedBy[k] = "finish"
           /\ IndexLength(events[k]) < minimum_event_length

\* C3 (as stated) - every event in events has start.index < end.index.
C3_StartBeforeEnd ==
    \A k \in 1 .. Len(events) : events[k].start.index < events[k].end.index

\* C3 (amended) - every event in events has start.index <= end.index; the
\* inequality is strict for every event appended by after(), and the two are
\* equal only for an event appended by finish() at the timestep that opened it.
C3_StartNotAfterEnd ==
    \A k \in 1 .. Len(events) :
        /\ events[k].start.index <= events[k].end.index
        /\ closedBy[k] = "after" => events[k].start.index < events[k].end.index

\* finish() closed an event at the timestep that opened it.
C3_Witness ==
    \E k \in 1 .. Len(events) :
        /\ closedBy[k] = "finish"
        /\ events[k].start.index = events[k].end.index

\* C7 (as stated) - after() with a threshold array whose length differs
\* from the scenario count fails with an error.
C7_LengthMismatchFails ==
    (lastCall.op = "after" /\ lastCall.arg # NumScenarios) => result # "ok"

\* C7 (amended) - with a threshold of a recognised kind, after() with an
\* array shorter than the scenario count fails with an IndexError; with an
\* array longer than the scenario count it returns normally and does what it
\* does for the array's first NumScenarios entries.
C7_ShortFailsLongAccepted ==
    [][(lastCall'.op = "after" /\ ThresholdKnown(threshold)) =>
          /\ lastCall'.arg < NumScenarios => result' = "IndexError"
          /\ lastCall'.arg >= NumScenarios =>
                 LET out == AfterLoop([events |-> events, cur |-> _current_events], 0,
                                      AllTriggered(threshold, lastCall'.vec),
                                      timestep', minimum_event_length)
                 IN  /\ result' = "ok"
                     /\ Len(lastCall'.vec) = NumScenarios
                     /\ events' = out.st.events
                     /\ _current_events' = out.st.cur]_vars

\* after() returned normally for an array longer than the scenario count and
\* opened an event.
C7_Witness ==
    /\ lastCall.op = "after"
    /\ lastCall.arg > NumScenarios
    /\ result = "ok"
    /\ \E si \in Scenarios : _current_events[si] # None

\* C8 - EventRecorder.__init__ with minimum_event_length < 1 raises and
\* yields no recorder; with minimum_event_length >= 1 it succeeds and stores
\* the value; no recorder that exists has minimum_event_length < 1.
C8_MinimumEventLengthValidated ==
    /\ pc # "init" => minimum_event_length >= 1
    /\ lastCall.op = "init" =>
           IF lastCall.arg < 1
           THEN result = "ValueError" /\ pc = "init"
           ELSE result = "ok" /\ pc = "constructed" /\ minimum_event_length = lastCall.arg

\* A construction with minimum_event_length = 0 has just been refused.
C8_Witness ==
    /\ lastCall.op = "init"
    /\ lastCall.arg = 0
    /\ result = "ValueError"
    /\ pc = "init"

\* C9 - with a threshold that is no Recorder, IndexParameter or Parameter,
\* every after() raises TypeError and leaves events and the open-event slots
\* as they were.
C9_UnknownThresholdRaises ==
    [][(lastCall'.op = "after" /\ threshold \notin {"Recorder", "IndexParameter", "Parameter"}) =>
          /\ result' = "TypeError"
          /\ events' = events
          /\ _current_events' = _current_events]_vars

\* after() has just raised TypeError for an unrecognised threshold.
C9_Witness ==
    /\ lastCall.op = "after"
    /\ threshold = "Other"
    /\ result = "TypeError"

\* C10 - with minimum_event_length = 1, after reset, a sequence of after()
\* calls that all returned, and finish(), events holds exactly one event for
\* every maximal run of non-zero threshold values of every scenario, starting
\* at the run's first timestep.
C10_AllRunsRecorded ==
    (lastCall.op = "finish" /\ clean /\ minimum_event_length = 1) =>
        \A si \in Scenarios :
            /\ Cardinality(EventsOf(si)) = Cardinality(RunStarts(si))
            /\ \A a \in RunStarts(si) :
                   \E k \in EventsOf(si) : events[k].start.index = hist[a].ts

\* The same statement for threshold values the cast leaves non-zero: an
\* IndexParameter's indices, or floats of magnitude at least 1.
C10_WholeValuesRecorded ==
    (/\ lastCall.op = "finish" /\ clean /\ minimum_event_length = 1
     /\ \A k \in 1 .. Len(hist) : \A j \in 1 .. Len(hist[k].vec) :
            (hist[k].vec[j] # 0) = (AsInt(threshold, hist[k].vec[j]) # 0)) =>
        \A si \in Scenarios :
            /\ Cardinality(EventsOf(si)) = Cardinality(RunStarts(si))
            /\ \A a \in RunStarts(si) :
                   \E k \in EventsOf(si) : events[k].start.index = hist[a].ts

\* The sum of Event.duration over the events with indices in S.
RECURSIVE DurationSum(_)
DurationSum(S) ==
    IF S = {} THEN 0
    ELSE LET k == CHOOSE x \in S : TRUE IN Duration(events[k]) + DurationSum(S \ {k})

\* v is the reducer func applied to the durations of scenario si's events.
Reduces(func, si, v) ==
    LET E == EventsOf(si) IN
    CASE func = "sum" -> v.den = 1 /\ v.num = DurationSum(E)
      [] func = "mean" -> v.den > 0 /\ v.num * Cardinality(E) = DurationSum(E) * v.den
      [] func = "max" -> /\ v.den = 1
                         /\ \E k \in E : Duration(events[k]) = v.num
                         /\ \A k \in E : Duration(events[k]) <= v.num
      [] func = "count" -> v.den = 1 /\ v.num = Cardinality(E)
      [] OTHER -> FALSE

\* C4 - Aggregation correctness: after EventDurationRecorder.finish() with a
\* reducer configured, the value of every scenario with events is the
\* reducer applied to the day-durations of its events and the value of every
\* scenario without events is 0.0; with no events at all the values are all
\* 0.0 and nothing is raised.
C4_AggregationCorrect ==
    (lastCall.op = "duration_finish" /\ pc = "ready") =>
        /\ Len(events) = 0 =>
               dresult = "ok" /\ \A si \in Scenarios : _values[si] = Zero
        /\ recorder_agg_func # "None" =>
               /\ dresult = "ok"
               /\ \A si \in Scenarios :
                      IF EventsOf(si) = {}
                      THEN _values[si] = Zero
                      ELSE Reduces(recorder_agg_func, si, _values[si])

\* After EventRecorder.finish(), a mean was computed for a scenario with two
\* events of different durations while another scenario had no event.
C4_Witness ==
    /\ lastCall.op = "duration_finish"
    /\ dresult = "ok"
    /\ recorder_agg_func = "mean"
    /\ \A si \in Scenarios : _current_events[si] = None
    /\ \E k \in 1 .. Len(events) : closedBy[k] = "finish"
    /\ \E si \in Scenarios : EventsOf(si) = {}
    /\ \E si \in Scenarios : \E j, k \in EventsOf(si) :
           Duration(events[j]) # Duration(events[k])

\* C5 - after EventDurationRecorder.finish(), every scenario without events
\* holds NaN.
C5_NoEventsIsNaN ==
    (lastCall.op = "duration_finish" /\ pc = "ready" /\ dresult = "ok") =>
        \A si \in Scenarios : EventsOf(si) = {} => _values[si] = NaN

\* C6 - an EventDurationRecorder constructed with neither agg_func nor
\* recorder_agg_func sums: finish() gives every scenario with events the sum
\* of its events' day-durations.
C6_DefaultIsSum ==
    (lastCall.op = "duration_finish" /\ pc = "ready" /\ recorder_agg_func = "None") =>
        /\ dresult = "ok"
        /\ \A si \in Scenarios :
               EventsOf(si) # {} => _values[si] = Whole(DurationSum(EventsOf(si)))

\* The event in slot si is none of the entries of evts.
NotRecorded(evts, cur, si) ==
    \A k \in 1 .. Len(evts) :
        ~(evts[k].scenario_index = si /\ evts[k].start = cur[si][1].start)

\* C11 - every scenario has at most one open event; an after() with a
\* non-zero threshold value for a scenario that has an open event leaves that
\* event and its start as they are; no event is at once in a slot of
\* _current_events and in events.
C11_OneOpenEvent ==
    [][/\ \A si \in Scenarios : Len(_current_events'[si]) <= 1
       /\ (lastCall'.op = "after" /\ result' = "ok") =>
              \A si \in Scenarios :
                  (_current_events[si] # None /\ lastCall'.vec[si + 1] # 0) =>
                      _current_events'[si] = _current_events[si]
       /\ \A si \in Scenarios :
              _current_events'[si] # None => NotRecorded(events', _current_events', si)]_vars

\* The same statement for the threshold values the cast leaves non-zero.
C11_OneOpenEventWholeValues ==
    [][/\ \A si \in Scenarios : Len(_current_events'[si]) <= 1
       /\ (lastCall'.op = "after" /\ result' = "ok") =>
              \A si \in Scenarios :
                  (_current_events[si] # None /\ AsInt(threshold, lastCall'.vec[si + 1]) # 0) =>
                      _current_events'[si] = _current_events[si]
       /\ \A si \in Scenarios :
              _current_events'[si] # None => NotRecorded(events', _current_events', si)]_vars

\* C12 - reset() in any state leaves events empty and every slot of
\* _current_events empty; no event opened before the reset is recorded or
\* open afterwards: every event started at or after the first after() that
\* followed the last reset.
C12_ResetClears ==
    /\ lastCall.op = "reset" =>
           events = <<>> /\ \A si \in Scenarios : _current_events[si] = None
    /\ \A k \in 1 .. Len(events) :
           Len(hist) > 0 /\ events[k].start.index >= hist[1].ts
    /\ \A si \in Scenarios :
           _current_events[si] # None =>
               Len(hist) > 0 /\ _current_events[si][1].start.index >= hist[1].ts

\* reset() has just discarded recorded or open events, mid-run.
C12_Witness ==
    /\ lastCall.op = "reset"
    /\ lastCall.arg > 0
    /\ timestep.index >= 0
    /\ events = <<>>

\* ---- what a run's inputs determine (hist is kept: SpecHist) ----
\* The k-th after() since reset found scenario si triggered.
Trig(si, k) == AsInt(threshold, hist[k].vec[si + 1]) # 0

\* The timestep of the k-th after() since reset.
TimestepOf(k) == [index |-> hist[k].ts, datetime |-> hist[k].ts * DeltaHours]

\* The maximal runs <<a, b>> of after() calls that found scenario si triggered.
TrigRuns(si) ==
    {r \in (1 .. Len(hist)) \X (1 .. Len(hist)) :
        /\ r[1] <= r[2]
        /\ \A j \in r[1] .. r[2] : Trig(si, j)
        /\ r[1] = 1 \/ ~Trig(si, r[1] - 1)
        /\ r[2] = Len(hist) \/ ~Trig(si, r[2] + 1)}

\* finish() was the last call of the run.
Finished == lastCall.op = "finish"

\* The events of scenario si that the inputs call for: the runs that ended
\* before the last after() and lasted minimum_event_length timesteps, and,
\* once finish() was called, the run that was still going on.
ExpectedOf(si) ==
    {[start |-> TimestepOf(r[1]), scenario_index |-> si, end |-> TimestepOf(r[2] + 1)] :
        r \in {q \in TrigRuns(si) :
                  q[2] < Len(hist) /\ q[2] + 1 - q[1] >= minimum_event_length}}
    \cup
    {[start |-> TimestepOf(r[1]), scenario_index |-> si, end |-> TimestepOf(Len(hist))] :
        r \in {q \in TrigRuns(si) : q[2] = Len(hist) /\ Finished}}

\* The slot of scenario si that the inputs call for.
ExpectedSlot(si) ==
    IF Finished \/ Len(hist) = 0 \/ ~Trig(si, Len(hist))
    THEN None
    ELSE LET r == CHOOSE q \in TrigRuns(si) : q[2] = Len(hist)
         IN  Some(Event(TimestepOf(r[1]), si))

\* An event closed by finish() rather than by the after() of the same timestep.
ByFinish(evt) ==
    /\ Finished
    /\ evt.end.index = hist[Len(hist)].ts
    /\ Trig(evt.scenario_index, Len(hist))

\* The order of closure: by timestep, after() before finish(), then by global_id.
ClosedBefore(e, f) ==
    \/ e.end.index < f.end.index
    \/ /\ e.end.index = f.end.index
       /\ \/ ~ByFinish(e) /\ ByFinish(f)
          \/ /\ ByFinish(e) = ByFinish(f)
             /\ e.scenario_index < f.scenario_index

\* A run as the claims take it: reset, after() calls that returned, finish().
CleanRun == pc = "ready" /\ clean /\ ThresholdKnown(threshold)

\* C13 - Determinism: events is a function of minimum_event_length and of the
\* calls made since reset (the timesteps and threshold values of the after()
\* calls, and whether finish() was called): its entries are the events the
\* inputs call for, each once, in the order of closure; so two recorders fed
\* the same calls hold identical lists.
C13_EventsDeterminedByInputs ==
    CleanRun =>
        /\ {events[k] : k \in 1 .. Len(events)} = UNION {ExpectedOf(si) : si \in Scenarios}
        /\ \A j, k \in 1 .. Len(events) : j < k => ClosedBefore(events[j], events[k])

\* A finished run whose list holds events closed by after() and two events
\* closed by finish().
C13_Witness ==
    /\ CleanRun
    /\ Finished
    /\ \E k \in 1 .. Len(events) : closedBy[k] = "after"
    /\ \E j, k \in 1 .. Len(events) : j < k /\ closedBy[j] = "finish" /\ closedBy[k] = "finish"

\* Every threshold value read since reset is zero or still non-zero after the cast.
CastKeepsNonZero ==
    \A k \in 1 .. Len(hist) : \A j \in 1 .. Len(hist[k].vec) :
        (hist[k].vec[j] # 0) = (AsInt(threshold, hist[k].vec[j]) # 0)

\* The start of evt is the first timestep of a run of non-zero values of scenario si.
StartsOwnRun(si, evt) == \E a \in RunStarts(si) : evt.start.index = hist[a].ts

\* C14 - a too-short event is dropped for good: once a scenario's threshold
\* value has gone from non-zero to zero its slot is empty, whether the event
\* was appended or not, and every event of the scenario, recorded or open,
\* starts at the first timestep of its own run of non-zero values.
C14_ShortEventDropped ==
    CleanRun =>
        \A si \in Scenarios :
            /\ (/\ Len(hist) >= 2
                /\ Active(si, Len(hist) - 1)
                /\ ~Active(si, Len(hist))) => _current_events[si] = None
            /\ \A k \in EventsOf(si) : StartsOwnRun(si, events[k])
            /\ _current_events[si] # None => StartsOwnRun(si, _current_events[si][1])

\* The same statement for the threshold values the cast leaves non-zero.
C14_ShortEventDroppedWholeValues == CastKeepsNonZero => C14_ShortEventDropped

\* C17 - after every after() that returned, the slot of scenario si is
\* occupied exactly when its threshold value was non-zero in that call; so
\* every recorded event starts at a timestep with a non-zero value whose
\* predecessor (if any since reset) had a zero value, every timestep in
\* [start.index, end.index) had a non-zero value, and the end timestep of an
\* event closed by after() had a zero value.
C17_SlotIffActive ==
    CleanRun =>
        \A si \in Scenarios :
            /\ lastCall.op = "after" =>
                   ((_current_events[si] # None) <=> Active(si, Len(hist)))
            /\ \A k \in EventsOf(si) :
                   /\ StartsOwnRun(si, events[k])
                   /\ \A j \in 1 .. Len(hist) :
                          (events[k].start.index <= hist[j].ts /\ hist[j].ts < events[k].end.index)
                              => Active(si, j)
                   /\ closedBy[k] = "after" =>
                          \E b \in 1 .. Len(hist) :
                              hist[b].ts = events[k].end.index /\ ~Active(si, b)

\* The same statement for the threshold values the cast leaves non-zero.
C17_SlotIffActiveWholeValues == CastKeepsNonZero => C17_SlotIffActive

\* C15 - between two reset() calls events is append-only: after() and
\* finish() keep the entries they find as a prefix; the entries are in the
\* order of closure: end.index never decreases along the list, the events
\* closed in one call are in ascending global_id order, and the events of one
\* scenario are in increasing start order.
C15_AppendOnlyInClosureOrder ==
    [][/\ lastCall'.op \in {"after", "finish"} =>
              /\ Len(events') >= Len(events)
              /\ SubSeq(events', 1, Len(events)) = events
       /\ \A j, k \in 1 .. Len(events') :
              j < k =>
                  /\ events'[j].end.index <= events'[k].end.index
                  /\ (/\ events'[j].end.index = events'[k].end.index
                      /\ closedBy'[j] = closedBy'[k])
                         => events'[j].scenario_index < events'[k].scenario_index
                  /\ events'[j].scenario_index = events'[k].scenario_index
                         => events'[j].start.index < events'[k].start.index]_vars

\* events holds two events closed by one after() call and, after them, a
\* later event of one of the two scenarios.
C15_Witness ==
    \E i, j, k \in 1 .. Len(events) :
        /\ i < j /\ j < k
        /\ closedBy[i] = "after" /\ closedBy[j] = "after"
        /\ events[i].end.index = events[j].end.index
        /\ events[k].scenario_index = events[i].scenario_index

\* C16 - finish() is idempotent: called when no event is open, as it is right
\* after a finish(), it appends nothing and leaves events and the slots of
\* _current_events as they are.
C16_FinishIdempotent ==
    [][lastCall'.op = "finish" =>
          /\ \A si \in Scenarios : _current_events'[si] = None
          /\ (lastCall.op = "finish" \/ \A si \in Scenarios : _current_events[si] = None) =>
                 /\ events' = events
                 /\ _current_events' = _current_events
                 /\ lastCall'.arg = 0]_vars

\* A finish() that found nothing open has just returned, after an earlier
\* finish() had appended an event.
C16_Witness ==
    /\ lastCall.op = "finish"
    /\ lastCall.arg = 0
    /\ \E k \in 1 .. Len(events) : closedBy[k] = "finish"

\* C18 - the events of one scenario never overlap: of two events of the same
\* scenario in events, the one appended earlier has end.index strictly less
\* than the start.index of the one appended later.
C18_NoOverlap ==
    \A j, k \in 1 .. Len(events) :
        (j < k /\ events[j].scenario_index = events[k].scenario_index) =>
            events[j].end.index < events[k].start.index

\* events holds two events of one scenario.
C18_Witness ==
    \E j, k \in 1 .. Len(events) :
        /\ j < k
        /\ events[j].scenario_index = events[k].scenario_index
        /\ closedBy[j] = "after"

\* The events of scenario si, in the order they have in events.
SubSequenceOf(si) == SelectSeq(events, LAMBDA evt : evt.scenario_index = si)

\* C19 - Scenario independence: in a run of calls that returned, the events of
\* scenario si in events and the content of slot si are what the timesteps and
\* the values of scenario si alone call for (ExpectedOf(si) and
\* ExpectedSlot(si) read no other scenario's values), whatever the values of
\* the other scenarios were; and the body of after()'s loop for scenario si
\* leaves the slot of every other scenario as it found it.
C19_ScenarioIndependence ==
    /\ CleanRun =>
           \A si \in Scenarios :
               /\ {SubSequenceOf(si)[k] : k \in 1 .. Len(SubSequenceOf(si))} = ExpectedOf(si)
               /\ Len(SubSequenceOf(si)) = Cardinality(ExpectedOf(si))
               /\ _current_events[si] = ExpectedSlot(si)
    /\ pc = "ready" =>
           \A si, sj \in Scenarios : \A triggered \in 0 .. 1 :
               sj # si =>
                   AfterScenario([events |-> events, cur |-> _current_events], si, triggered,
                                 NextTimestep(timestep), minimum_event_length).cur[sj]
                       = _current_events[sj]

\* Two scenarios were fed different values: one has an event that after()
\* closed and an empty slot, the other has no event and an open slot.
C19_Witness ==
    /\ CleanRun
    /\ \E si, sj \in Scenarios :
           /\ si # sj
           /\ \E k \in EventsOf(si) : closedBy[k] = "after"
           /\ _current_events[si] = None
           /\ EventsOf(sj) = {}
           /\ _current_events[sj] # None

\* C20 - EventDurationRecorder.finish() leaves the EventRecorder's events and
\* _current_events unchanged; once the EventRecorder was reset, it leaves 0.0
\* for every scenario that has no event in events, whatever value the
\* scenario held before the call; and a second call right after the first
\* leaves the same values and the same outcome.
C20_FinishReadsEventsOnly ==
    [][lastCall'.op = "duration_finish" =>
          /\ events' = events
          /\ _current_events' = _current_events
          /\ pc = "ready" =>
                 \A si \in Scenarios : EventsOf(si) = {} => _values'[si] = Zero
          /\ lastCall.op = "duration_finish" =>
                 _values' = _values /\ dresult' = dresult]_vars

\* finish() has just returned: a scenario that held a non-zero value before
\* the call has no event now and holds 0.0, while another scenario has events
\* and a non-zero value.
C20_Witness ==
    /\ lastCall.op = "duration_finish"
    /\ pc = "ready"
    /\ dresult = "ok"
    /\ \E si, sj \in Scenarios :
           /\ lastCall.vec[si + 1] = 1
           /\ EventsOf(si) = {}
           /\ _values[si] = Zero
           /\ EventsOf(sj) # {}
           /\ _values[sj] # Zero

====
